---------------------------- MODULE Spec2Model ----------------------------
(***************************************************************************)
(* Model of examples/pyet/pyet.py (emer/etable): the conversions between   *)
(* Go etensor.Tensor / etable.Table values and numpy arrays, the PyEtable  *)
(* container, and the pandas / torch exports, with the driver calls of     *)
(* examples/pyet/etest.py.                                                 *)
(*                                                                         *)
(* Values.  An integer is the record [hi, lo]: the 64-bit two's complement *)
(* number whose high and low 32-bit words are hi and lo, each written as a *)
(* signed 32-bit number (W(0, -1) is 2^32 - 1, W(0, MinInt32) is 2^31).    *)
(* A float is [m, e], the number m * 2^e.  A string is a sequence of       *)
(* one-character strings.  A bit is a BOOLEAN.                             *)
(***************************************************************************)
EXTENDS Integers, Sequences, FiniteSets, TLC

\* ------------------------------------------------------------------ bounds
\* Largest number of elements of a tensor, and largest number of dimensions.
MaxElems == 2
MaxRank == 2
\* Largest number of columns and of rows of a table.
MaxCols == 2
MaxRows == 2

VARIABLES
    et,     \* the Go tensor the driver holds (etest.py: etf, etu32, ets, etb)
    nar,    \* the numpy array etensor_to_numpy returned (npf, npu32, nps, npb),
            \* None before the call and when it raised
    ct,     \* the tensor numpy_to_etensor returned (ctf, ctu32, cts, ctb),
            \* None before the call and when it raised
    gt,     \* the Go etable.Table the driver holds (etest.py: ss.Pats, dt)
    pt,     \* the PyEtable the driver holds (pdt, pcd)
    rt,     \* what the last table call returned (ttd, pcd, the torch dataset),
            \* None when it raised
    edits,  \* the kinds of change the driver made to gt since it converted it
    orig,   \* the tensor (table) nar (pt) was converted from, None once nar (pt)
            \* was written otherwise
    last    \* the last call: its name, the exception it raised, and for the
            \* calls that write their arguments those as they were before
            \* (et: st_nm and n of MergeCols, the column of Sim.Pandas)

vars == <<et, nar, ct, gt, pt, rt, edits, orig, last>>
tensor_vars == <<et, nar, ct>>
table_vars == <<gt, pt, rt, edits>>

\* ------------------------------------------------------------------ values
None == [none |-> TRUE]

W(h, l) == [hi |-> h, lo |-> l]
MinInt32 == -2147483647 - 1
MaxInt32 == 2147483646 + 1
SignExt(l) == IF l < 0 THEN -1 ELSE 0
F(m, e) == [m |-> m, e |-> e]

Min(a, b) == IF a < b THEN a ELSE b
Max(a, b) == IF a < b THEN b ELSE a

RECURSIVE Prod(_)
Prod(shp) == IF shp = <<>> THEN 1 ELSE Head(shp) * Prod(Tail(shp))

\* The element types of etensor (etensor.Type); the last two have no branch
\* in pyet.py.
SupportedTypes ==
    {"UINT8", "INT8", "UINT16", "INT16", "UINT32", "INT32", "UINT64", "INT64",
     "FLOAT32", "FLOAT64", "STRING", "INT", "BOOL"}
UnsupportedTypes == {"NULL", "FLOAT16"}
Types == SupportedTypes \cup UnsupportedTypes

IntTypes == {"UINT8", "INT8", "UINT16", "INT16", "UINT32", "INT32", "UINT64", "INT64", "INT"}
FloatTypes == {"FLOAT32", "FLOAT64", "FLOAT16"}

KindOfType(ty) ==
    IF ty \in IntTypes THEN "int"
    ELSE IF ty \in FloatTypes THEN "float"
    ELSE IF ty = "STRING" THEN "str"
    ELSE IF ty = "BOOL" THEN "bool"
    ELSE "null"

\* numpy dtypes.  np.intc is the C int, the same dtype as np.int32; np.int_
\* is the C long, the same dtype as np.int64 (Linux, macOS).
NpIntc == "int32"
NpInt_ == "int64"
NpIntDtypes == {"uint8", "int8", "uint16", "int16", "uint32", "int32", "uint64", "int64"}
NpFloatDtypes == {"float16", "float32", "float64"}

KindOfDtype(dt) ==
    IF dt \in NpIntDtypes THEN "int"
    ELSE IF dt \in NpFloatDtypes THEN "float"
    ELSE IF dt \in {"str", "bytes"} THEN "str"
    ELSE IF dt = "bool" THEN "bool"
    ELSE "object"

\* Whether the number v is a value of the integer dtype dt, or the float v a
\* value of the float dtype dt (float32: 24 bits of mantissa).
Abs(n) == IF n < 0 THEN -n ELSE n
Fits(dt, v) ==
    CASE dt = "uint8" -> v.hi = 0 /\ v.lo >= 0 /\ v.lo <= 255
      [] dt = "int8" -> v.hi = SignExt(v.lo) /\ v.lo >= -128 /\ v.lo <= 127
      [] dt = "uint16" -> v.hi = 0 /\ v.lo >= 0 /\ v.lo <= 65535
      [] dt = "int16" -> v.hi = SignExt(v.lo) /\ v.lo >= -32768 /\ v.lo <= 32767
      [] dt = "uint32" -> v.hi = 0
      [] dt = "int32" -> v.hi = SignExt(v.lo)
      [] dt = "uint64" -> v.hi >= 0
      [] dt = "int64" -> TRUE
      [] dt = "float32" -> Abs(v.m) < 2^24
      [] dt = "float64" -> TRUE
      [] OTHER -> FALSE

\* The C cast of the integer v to the integer dtype dt: the low bits are kept.
WrapInt(dt, v) ==
    CASE dt = "uint8" -> W(0, v.lo % 256)
      [] dt = "int8" ->
            LET b == v.lo % 256 IN
            IF b >= 128 THEN W(-1, b - 256) ELSE W(0, b)
      [] dt = "uint16" -> W(0, v.lo % 65536)
      [] dt = "int16" ->
            LET b == v.lo % 65536 IN
            IF b >= 32768 THEN W(-1, b - 65536) ELSE W(0, b)
      [] dt = "uint32" -> W(0, v.lo)
      [] dt = "int32" -> W(SignExt(v.lo), v.lo)
      [] OTHER -> v

\* The float v rounded to float32 (to nearest, ties to even), for mantissas
\* of at most 25 bits.
RoundF32(v) ==
    IF Abs(v.m) < 2^24 THEN v
    ELSE LET h == v.m \div 2
             odd == v.m % 2 = 1
         IN F(IF odd /\ h % 2 = 1 THEN h + 1 ELSE h, v.e + 1)

\* A string stored in a fixed-width unicode array of the given width: cut to
\* the width.
NpStr(width, s) == SubSeq(s, 1, Min(width, Len(s)))

RECURSIVE MaxLen(_)
MaxLen(strs) == IF strs = <<>> THEN 0 ELSE Max(Len(Head(strs)), MaxLen(Tail(strs)))

\* ------------------------------------------------------------------ results
\* A call returns a value or raises an exception.
Ok(v) == [err |-> "none", val |-> v]
Raise(e) == [err |-> e, val |-> None]

\* --------------------------------------------------------------- numpy side
\* An ndarray: dtype, itemsize in characters of a string dtype (0 otherwise),
\* shape, and the elements in flattened (row-major) order.
NdArray(dt, width, shp, data) == [dtype |-> dt, width |-> width, shape |-> shp, data |-> data]

\* np.array(vals, dtype=dt) on a sequence of Python ints or floats.  A Python
\* int outside the dtype raises OverflowError (strict: numpy 2) or is cast as
\* in C (numpy 1).
np_array(vals, dt, strict) ==
    LET n == Len(vals) IN
    IF KindOfDtype(dt) = "int" /\ strict /\ \E i \in 1..n : ~Fits(dt, vals[i])
    THEN Raise("OverflowError")
    ELSE Ok(NdArray(dt, 0, <<n>>,
                    [i \in 1..n |->
                        IF KindOfDtype(dt) = "int"
                        THEN (IF Fits(dt, vals[i]) THEN vals[i] ELSE WrapInt(dt, vals[i]))
                        ELSE IF dt = "float32" THEN RoundF32(vals[i])
                        ELSE vals[i]]))

\* np.array(vals) on a sequence of strings: the dtype is inferred, a unicode
\* dtype as wide as the longest string; an empty sequence gives float64.
np_array_str(vals) ==
    LET n == Len(vals) IN
    IF n = 0 THEN NdArray("float64", 0, <<0>>, <<>>)
    ELSE LET w == Max(1, MaxLen(vals)) IN
         NdArray("str", w, <<n>>, [i \in 1..n |-> NpStr(w, vals[i])])

\* nar.reshape(shp)
reshape(a, shp) ==
    IF Prod(shp) = Len(a.data) /\ \A i \in 1..Len(shp) : shp[i] >= 0
    THEN Ok([a EXCEPT !.shape = shp])
    ELSE Raise("ValueError")

\* ------------------------------------------------------------------ Go side
\* A tensor: element type, shape, and the flat Values (the bits of a Bits
\* tensor, read by Value1D and written by Set1D).
Tensor(ty, shp, vals) == [type |-> ty, shape |-> shp, values |-> vals]

ZeroOf(ty) ==
    CASE KindOfType(ty) = "int" -> W(0, 0)
      [] KindOfType(ty) = "float" -> F(0, 0)
      [] KindOfType(ty) = "str" -> <<>>
      [] KindOfType(ty) = "bool" -> FALSE
      [] OTHER -> W(0, 0)

\* etensor.NewUint8(shape, nil, nil) and the like: a zeroed tensor.
NewTensor(ty, shp) == Tensor(ty, shp, [i \in 1..Prod(shp) |-> ZeroOf(ty)])

\* Values.copy(src): Go's copy, up to the shorter of the two lengths.
GoCopy(dst, src) ==
    [i \in 1..Len(dst) |-> IF i <= Len(src) THEN src[i] ELSE dst[i]]

\* The dtype etensor_to_numpy names for each numeric element type.
DtypeOf(ty) ==
    CASE ty = "UINT8" -> "uint8"
      [] ty = "INT8" -> "int8"
      [] ty = "UINT16" -> "uint16"
      [] ty = "INT16" -> "int16"
      [] ty = "UINT32" -> "uint32"
      [] ty = "INT32" -> "int32"
      [] ty = "UINT64" -> "uint64"
      [] ty = "INT64" -> "int64"
      [] ty = "FLOAT32" -> "float32"
      [] ty = "FLOAT64" -> "float64"
      [] ty = "INT" -> NpIntc
      [] ty = "STRING" -> "str"
      [] ty = "BOOL" -> "bool"
      [] OTHER -> "none"

NumericTypes == SupportedTypes \ {"STRING", "BOOL"}


\* ------------------------------------------------------- pyet.py: tensors
\* etensor_to_numpy with the final else branch converting the values as they
\* are instead of raising.
etensor_to_numpy_no_raise(t, strict) ==
    LET n == Len(t.values)
        made ==
            IF t.type \in NumericTypes
            THEN np_array(t.values, DtypeOf(t.type), strict)
            ELSE IF t.type = "STRING"
            THEN Ok(np_array_str(t.values))
            ELSE IF t.type = "BOOL"
            THEN Ok(NdArray("bool", 0, <<n>>, [i \in 1..n |-> t.values[i]]))
            ELSE Ok(NdArray("float64", 0, <<n>>, t.values))
    IN  IF made.err # "none" THEN made ELSE reshape(made.val, t.shape)

\* etensor_to_numpy(et): a new ndarray holding the tensor's data, or the
\* exception raised.
etensor_to_numpy(t, strict) ==
    LET n == Len(t.values)
        made ==
            IF t.type \in NumericTypes
            THEN np_array(t.values, DtypeOf(t.type), strict)
            ELSE IF t.type = "STRING"
            THEN Ok(np_array_str(t.values))
            ELSE IF t.type = "BOOL"
            THEN Ok(NdArray("bool", 0, <<n>>, [i \in 1..n |-> t.values[i]]))
            ELSE Raise("TypeError")
    IN  IF made.err # "none" THEN made ELSE reshape(made.val, t.shape)

\* The tensor numpy_to_etensor allocates for a branch and fills from the flat
\* view of the array.
FilledTensor(ty, a) ==
    LET new == NewTensor(ty, a.shape) IN
    [new EXCEPT !.values = GoCopy(new.values, a.data)]

\* numpy_to_etensor(nar): a new tensor holding the array's data, or the
\* exception raised.  The branches are tried in the order of the source.
numpy_to_etensor(a) ==
    IF a.dtype = "uint8" THEN Ok(FilledTensor("UINT8", a))
    ELSE IF a.dtype = "int8" THEN Ok(FilledTensor("INT8", a))
    ELSE IF a.dtype = "uint16" THEN Ok(FilledTensor("UINT16", a))
    ELSE IF a.dtype = "int16" THEN Ok(FilledTensor("INT16", a))
    ELSE IF a.dtype = "uint32" THEN Ok(FilledTensor("UINT32", a))
    ELSE IF a.dtype = "int32" THEN Ok(FilledTensor("INT32", a))
    ELSE IF a.dtype = "uint64" THEN Ok(FilledTensor("UINT64", a))
    ELSE IF a.dtype = "int64" THEN Ok(FilledTensor("INT64", a))
    ELSE IF a.dtype = "float32" THEN Ok(FilledTensor("FLOAT32", a))
    ELSE IF a.dtype = "float64" THEN Ok(FilledTensor("FLOAT64", a))
    ELSE IF a.dtype = "bytes" \/ a.dtype = "str" THEN Ok(FilledTensor("STRING", a))
    ELSE IF a.dtype = NpInt_ \/ a.dtype = NpIntc THEN Ok(FilledTensor("INT", a))
    ELSE IF a.dtype = "bool"
    THEN Ok(Tensor("BOOL", a.shape, [i \in 1..Len(a.data) |-> a.data[i]]))
    ELSE Raise("TypeError")

\* An element written into the ndarray a by np.copyto(..., casting='unsafe')
\* or by an item assignment: cast to a's dtype.
CastTo(a, v) ==
    CASE KindOfDtype(a.dtype) = "int" -> IF Fits(a.dtype, v) THEN v ELSE WrapInt(a.dtype, v)
      [] a.dtype = "float32" -> RoundF32(v)
      [] KindOfDtype(a.dtype) = "str" -> NpStr(a.width, v)
      [] OTHER -> v

\* np.copyto(narf, etv, casting='unsafe'): etv is broadcast to narf's length.
np_copyto(a, vals) ==
    LET n == Len(a.data) IN
    IF Len(vals) = n
    THEN Ok([a EXCEPT !.data = [i \in 1..n |-> CastTo(a, vals[i])]])
    ELSE IF Len(vals) = 1
    THEN Ok([a EXCEPT !.data = [i \in 1..n |-> CastTo(a, vals[1])]])
    ELSE Raise("ValueError")

\* The loop of the BOOL branch of both copy functions:
\*     sz = min(etb.Len(), len(narf)); narf[i] = etb.Value1D(i)
BitsIntoArray(a, t) ==
    LET sz == Min(Len(t.values), Len(a.data)) IN
    [a EXCEPT !.data = [i \in 1..Len(a.data) |->
                            IF i <= sz THEN CastTo(a, t.values[i]) ELSE a.data[i]]]

\* copy_etensor_to_numpy with a write before the type dispatch: the first
\* element of the array is spread over it, then the type is looked at.
copy_etensor_to_numpy_write_first(a, t) ==
    LET w == [a EXCEPT !.data = [i \in 1..Len(a.data) |-> a.data[1]]] IN
    IF t.type \in SupportedTypes \ {"BOOL"}
    THEN LET r == np_copyto(w, t.values) IN
         [err |-> r.err, nar |-> IF r.err = "none" THEN r.val ELSE w]
    ELSE IF t.type = "BOOL"
    THEN [err |-> "none", nar |-> BitsIntoArray(w, t)]
    ELSE [err |-> "TypeError", nar |-> w]

\* copy_etensor_to_numpy(nar, et): [err, nar]: the exception raised and the
\* destination array after the call.
copy_etensor_to_numpy(a, t) ==
    IF t.type \in SupportedTypes \ {"BOOL"}
    THEN LET r == np_copyto(a, t.values) IN
         [err |-> r.err, nar |-> IF r.err = "none" THEN r.val ELSE a]
    ELSE IF t.type = "BOOL"
    THEN [err |-> "none", nar |-> BitsIntoArray(a, t)]
    ELSE [err |-> "TypeError", nar |-> a]

\* copy_numpy_to_etensor(et, nar): [err, et, nar]: the exception raised, and
\* the destination tensor and the source array after the call.
copy_numpy_to_etensor(t, a) ==
    IF t.type \in SupportedTypes \ {"BOOL"}
    THEN [err |-> "none", et |-> [t EXCEPT !.values = GoCopy(t.values, a.data)], nar |-> a]
    ELSE IF t.type = "BOOL"
    THEN [err |-> "none", et |-> t, nar |-> BitsIntoArray(a, t)]
    ELSE [err |-> "TypeError", et |-> t, nar |-> a]

\* ----------------------------------------------------- tensors of the model
\* Sample element values of each type: the ends of its range, and for the
\* platform int (64 bits in Go) a value outside 32 bits.
SampleSeq(ty) ==
    CASE ty = "UINT8" -> <<W(0, 0), W(0, 255)>>
      [] ty = "INT8" -> <<W(-1, -128), W(0, 127)>>
      [] ty = "UINT16" -> <<W(0, 256), W(0, 65535)>>
      [] ty = "INT16" -> <<W(-1, -32768), W(0, 32767)>>
      [] ty = "UINT32" -> <<W(0, 65536), W(0, -1)>>
      [] ty = "INT32" -> <<W(-1, MinInt32), W(0, MaxInt32)>>
      [] ty = "UINT64" -> <<W(1, 0), W(MaxInt32, -1)>>
      [] ty = "INT64" -> <<W(MinInt32, 0), W(MaxInt32, -1)>>
      [] ty = "INT" -> <<W(-1, -7), W(0, MinInt32)>>
      [] ty = "FLOAT32" -> <<F(3, -1), F(2^24 - 1, 0)>>
      [] ty = "FLOAT64" -> <<F(3, -1), F(2^24 + 1, 0)>>
      [] ty = "FLOAT16" -> <<F(3, -1), F(1, 0)>>
      [] ty = "STRING" -> <<<<"a">>, <<"b", "c">>>>
      [] ty = "BOOL" -> <<FALSE, TRUE>>
      [] OTHER -> <<W(0, 0), W(0, 1)>>
Samples(ty) == {SampleSeq(ty)[k] : k \in 1..Len(SampleSeq(ty))}

Shapes ==
    {s \in UNION {[1..r -> 0..MaxElems] : r \in 1..MaxRank} : Prod(s) <= MaxElems}

TensorsOf(ty) ==
    UNION {{Tensor(ty, s, v) : v \in [1..Prod(s) -> Samples(ty)]} : s \in Shapes}

\* Whether the array's elements are of the tensor's kind (the driver copies
\* between a tensor and the array made from it).
SameKind(t, a) == KindOfDtype(a.dtype) = KindOfType(t.type) \/ Len(a.data) = 0

Call(op, e, t, a) == [op |-> op, err |-> e, et |-> t, nar |-> a]

\* ------------------------------------------- etest.py Sim.Numpy: the driver
TInit ==
    /\ et \in UNION {TensorsOf(ty) : ty \in Types}
    /\ gt = None /\ pt = None /\ rt = None /\ edits = {}
    /\ nar = None
    /\ ct = None
    /\ orig = None
    /\ last = Call("init", "none", None, None)

\* npf = pyet.etensor_to_numpy(etf)
Do_etensor_to_numpy ==
    \E strict \in BOOLEAN :
        LET r == etensor_to_numpy(et, strict) IN
        /\ nar' = r.val
        /\ orig' = IF r.err = "none" THEN et ELSE None
        /\ ct' = None
        /\ last' = Call("etensor_to_numpy", r.err, None, None)
        /\ UNCHANGED <<et, table_vars>>

\* ctf = pyet.numpy_to_etensor(npf)
Do_numpy_to_etensor ==
    /\ nar # None
    /\ LET r == numpy_to_etensor(nar) IN
       /\ ct' = r.val
       /\ last' = Call("numpy_to_etensor", r.err, None, None)
    /\ UNCHANGED <<et, nar, orig, table_vars>>

\* etu32.Values[i] = ... / etb.Set1D(i, ...): the driver writes the tensor it
\* converted.
SetValue ==
    \E i \in 1..Len(et.values), v \in Samples(et.type) :
        /\ nar # None
        /\ et.values[i] # v
        /\ et' = [et EXCEPT !.values[i] = v]
        /\ ct' = None
        /\ last' = Call("SetValue", "none", None, None)
        /\ UNCHANGED <<nar, orig, table_vars>>

\* The driver turns to a new tensor of an element type pyet has no branch
\* for, of the shape of the one it held.
Do_NewTensor ==
    \E ty \in UnsupportedTypes :
        /\ nar # None
        /\ et.type \in SupportedTypes
        /\ et' = NewTensor(ty, et.shape)
        /\ ct' = None
        /\ last' = Call("NewTensor", "none", None, None)
        /\ UNCHANGED <<nar, orig, table_vars>>

\* pyet.copy_etensor_to_numpy(npu32, etu32); last keeps the arguments as they
\* were before the call.  The values of a tensor of an unsupported type are
\* never read, so it goes with any array.
Do_copy_etensor_to_numpy ==
    /\ nar # None
    /\ SameKind(et, nar) \/ et.type \notin SupportedTypes
    /\ LET r == copy_etensor_to_numpy(nar, et) IN
       /\ nar' = r.nar
       /\ orig' = None
       /\ ct' = None
       /\ last' = Call("copy_etensor_to_numpy", r.err, et, nar)
    /\ UNCHANGED <<et, table_vars>>

\* pyet.copy_numpy_to_etensor(etu32, npu32)
Do_copy_numpy_to_etensor ==
    /\ nar # None
    /\ SameKind(et, nar) \/ et.type \notin SupportedTypes
    /\ LET r == copy_numpy_to_etensor(et, nar) IN
       /\ et' = r.et
       /\ nar' = r.nar
       /\ orig' = IF r.nar = nar THEN orig ELSE None
       /\ ct' = None
       /\ last' = Call("copy_numpy_to_etensor", r.err, et, nar)
    /\ UNCHANGED table_vars

TNext ==
    \/ Do_etensor_to_numpy
    \/ Do_NewTensor
    \/ Do_numpy_to_etensor
    \/ SetValue
    \/ Do_copy_etensor_to_numpy
    \/ Do_copy_numpy_to_etensor

SpecTensor == TInit /\ [][TNext]_vars

\* -------------------------------------------------------- pyet.py: PyEtable
\* A Python list index (from 0) into a sequence (from 1).
At(seq, idx) == seq[idx + 1]

\* PyEtable(): the fields as __init__ sets them.  A dict is a function from
\* its keys.
EmptyDict == [k \in {} |-> 0]
PyEtableNew ==
    [Cols |-> <<>>, ColNames |-> <<>>, Rows |-> 0, ColNameMap |-> EmptyDict,
     MetaData |-> EmptyDict]

\* UpdateColNameMap(dt): the dict is rebuilt; a later column of the same name
\* overwrites the entry of an earlier one.
UpdateColNameMap(dt) ==
    LET n == Len(dt.ColNames) IN
    [dt EXCEPT !.ColNameMap =
        [nm \in {dt.ColNames[i] : i \in 1..n} |->
            (CHOOSE i \in 1..n :
                /\ dt.ColNames[i] = nm
                /\ \A j \in (i + 1)..n : dt.ColNames[j] # nm) - 1]]

\* AddCol without the call of UpdateColNameMap.
AddCol_stale_map(dt, a, name) ==
    [dt EXCEPT !.Cols = Append(@, a), !.ColNames = Append(@, name)]

\* AddCol(dt, nar, name)
AddCol(dt, a, name) ==
    UpdateColNameMap([dt EXCEPT !.Cols = Append(@, a), !.ColNames = Append(@, name)])

\* ColByName(dt, name)
ColByName(dt, name) ==
    IF name \in DOMAIN dt.ColNameMap
    THEN Ok(At(dt.Cols, dt.ColNameMap[name]))
    ELSE Raise("LookupError")

\* ------------------------------------------------------- Go side: tables
\* An etable.Table: columns, their names, the number of rows, the metadata.
GoTable(cols, names, rows, meta) ==
    [Cols |-> cols, ColNames |-> names, Rows |-> rows, MetaData |-> meta]

\* et.AddCol(tsr, cn)
GoAddCol(t, tsr, name) ==
    [t EXCEPT !.Cols = Append(@, tsr), !.ColNames = Append(@, name)]

\* et.SetMetaData(key, val)
GoSetMetaData(t, key, val) ==
    [t EXCEPT !.MetaData =
        [k \in DOMAIN t.MetaData \cup {key} |-> IF k = key THEN val ELSE t.MetaData[k]]]

\* What iterating et.MetaData yields: the entries, each a pair of key and
\* value.
GoMetaDataItems(t) == {<<k, t.MetaData[k]>> : k \in DOMAIN t.MetaData}

\* et.ColByNameTry(cn)
GoColByNameTry(t, name) ==
    IF \E j \in 1..Len(t.ColNames) : t.ColNames[j] = name
    THEN Ok(t.Cols[CHOOSE j \in 1..Len(t.ColNames) : t.ColNames[j] = name])
    ELSE Raise("error")

\* --------------------------------------------------------- pyet.py: tables
\* The column loop of etable_to_py from column ci on: an exception of
\* etensor_to_numpy ends the call.
RECURSIVE ColsToPy(_, _, _, _)
ColsToPy(p, t, ci, strict) ==
    IF ci > Len(t.Cols) THEN Ok(p)
    ELSE LET r == etensor_to_numpy(t.Cols[ci], strict) IN
         IF r.err # "none" THEN Raise(r.err)
         ELSE ColsToPy(AddCol(p, r.val, t.ColNames[ci]), t, ci + 1, strict)

\* etable_to_py(et)
etable_to_py(t, strict) ==
    LET r == ColsToPy([PyEtableNew EXCEPT !.Rows = t.Rows], t, 1, strict) IN
    IF r.err # "none" THEN r
    ELSE LET mds == GoMetaDataItems(t) IN
         Ok([r.val EXCEPT !.MetaData =
                [k \in {md[1] : md \in mds} |-> (CHOOSE md \in mds : md[1] = k)[2]]])

\* The column loop of py_to_etable from column ci on.
RECURSIVE ColsToGo(_, _, _)
ColsToGo(t, p, ci) ==
    IF ci > Len(p.Cols) THEN Ok(t)
    ELSE LET r == numpy_to_etensor(p.Cols[ci]) IN
         IF r.err # "none" THEN Raise(r.err)
         ELSE ColsToGo(GoAddCol(t, r.val, p.ColNames[ci]), p, ci + 1)

\* The metadata loop of py_to_etable over the keys still to set.
RECURSIVE MetaToGo(_, _, _)
MetaToGo(t, p, keys) ==
    IF keys = {} THEN t
    ELSE LET md == CHOOSE k \in keys : TRUE IN
         MetaToGo(GoSetMetaData(t, md, p.MetaData[md]), p, keys \ {md})

\* py_to_etable(pt)
py_to_etable(p) ==
    LET r == ColsToGo(GoTable(<<>>, <<>>, p.Rows, EmptyDict), p, 1) IN
    IF r.err # "none" THEN r
    ELSE Ok(MetaToGo(r.val, p, DOMAIN p.MetaData))

\* One pass of the loop of copy_etable_to_py: column ci of pt is overwritten
\* from the column of et of the same name; any exception is passed over.
CopyColToPy(p, t, ci) ==
    LET dc == GoColByNameTry(t, p.ColNames[ci]) IN
    IF dc.err # "none" THEN p
    ELSE [p EXCEPT !.Cols[ci] = copy_etensor_to_numpy(p.Cols[ci], dc.val).nar]

RECURSIVE CopyColsToPy(_, _, _)
CopyColsToPy(p, t, ci) ==
    IF ci > Len(p.Cols) THEN p ELSE CopyColsToPy(CopyColToPy(p, t, ci), t, ci + 1)


\* copy_etable_to_py with the try around the loop instead of inside it: the
\* first column that fails ends the copy.
copy_etable_to_py_stop_at_error(p, t) ==
    LET fails(ci) ==
            LET dc == GoColByNameTry(t, p.ColNames[ci]) IN
            \/ dc.err # "none"
            \/ copy_etensor_to_numpy(p.Cols[ci], dc.val).err # "none"
        stop == IF \E ci \in 1..Len(p.Cols) : fails(ci)
                THEN CHOOSE ci \in 1..Len(p.Cols) :
                        fails(ci) /\ \A cj \in 1..(ci - 1) : ~fails(cj)
                ELSE Len(p.Cols) + 1
    IN  [p EXCEPT !.Cols = [ci \in 1..Len(p.Cols) |->
                                IF ci < stop THEN CopyColToPy(p, t, ci).Cols[ci]
                                ELSE p.Cols[ci]]]

\* copy_etable_to_py(pt, et): pt after the call.
copy_etable_to_py(p, t) == CopyColsToPy(p, t, 1)

\* One pass of the loop of copy_py_to_etable: [et, pt] after it.  The array
\* handed to copy_numpy_to_etensor is the one in pt.Cols.
CopyColToGo(tp, ci) ==
    LET nm == tp.et.ColNames[ci]
        pc == ColByName(tp.pt, nm)
    IN  IF pc.err # "none" THEN tp
        ELSE LET r == copy_numpy_to_etensor(tp.et.Cols[ci], pc.val) IN
             [et |-> [tp.et EXCEPT !.Cols[ci] = r.et],
              pt |-> [tp.pt EXCEPT !.Cols[tp.pt.ColNameMap[nm] + 1] = r.nar]]

RECURSIVE CopyColsToGo(_, _)
CopyColsToGo(tp, ci) ==
    IF ci > Len(tp.et.Cols) THEN tp ELSE CopyColsToGo(CopyColToGo(tp, ci), ci + 1)

\* copy_py_to_etable(et, pt): [et, pt] after the call.
copy_py_to_etable(t, p) == CopyColsToGo([et |-> t, pt |-> p], 1)

\* ------------------------------------------------------ tables of the model
\* The columns of the driver's tables (etest.py ConfigPats) and their types.
Schema == <<"Name", "Input", "Count", "Flag">>
\* The name a column is renamed to, and the element type a column is
\* replaced with.
NewName == "Output"
NewType == "FLOAT16"
ColTypeOf(nm) ==
    CASE nm = "Name" -> "STRING"
      [] nm = "Input" -> "FLOAT32"
      [] nm = "Count" -> "INT"
      [] OTHER -> "BOOL"

\* rows sample values of a type, starting from the k-th.
Fill(ty, rows, k) ==
    [i \in 1..rows |-> SampleSeq(ty)[((k + i) % Len(SampleSeq(ty))) + 1]]

FillChoices == {0, 1}

\* The columns of idx (increasing indexes into Schema), by name.
NamesAt(idx) == [i \in 1..Len(idx) |-> Schema[idx[i]]]
NameSeqs ==
    {NamesAt(idx) : idx \in
        {ix \in UNION {[1..n -> 1..Len(Schema)] : n \in 0..MaxCols} :
            \A i, j \in 1..Len(ix) : i < j => ix[i] < ix[j]}}

MetaSamples ==
    {EmptyDict, [k \in {"name", "desc"} |-> IF k = "name" THEN "Pats" ELSE "Training patterns"]}

Tables ==
    UNION {UNION {
        {GoTable([i \in 1..Len(ns) |->
                    Tensor(ColTypeOf(ns[i]), <<r>>, Fill(ColTypeOf(ns[i]), r, k))],
                 ns, r, m) : k \in FillChoices, m \in MetaSamples}
        : r \in 0..MaxRows} : ns \in NameSeqs}

\* dt.SetNumRows(rows): every column is cut or extended with zero values.
GoSetNumRows(t, rows) ==
    [t EXCEPT !.Rows = rows,
              !.Cols = [i \in 1..Len(t.Cols) |->
                            Tensor(t.Cols[i].type, <<rows>>,
                                   [k \in 1..rows |->
                                        IF k <= Len(t.Cols[i].values)
                                        THEN t.Cols[i].values[k]
                                        ELSE ZeroOf(t.Cols[i].type)])]]

\* ------------------------------------ etest.py Sim.PeTable: the driver
TabInit ==
    /\ gt \in Tables
    /\ pt = None /\ rt = None /\ edits = {}
    /\ et = None /\ nar = None /\ ct = None
    /\ orig = None
    /\ last = Call("init", "none", None, None)

\* pdt = pyet.etable_to_py(dt)
Do_etable_to_py ==
    \E strict \in BOOLEAN :
        LET r == etable_to_py(gt, strict) IN
        /\ pt = None
        /\ pt' = r.val
        /\ orig' = IF r.err = "none" THEN gt ELSE None
        /\ last' = Call("etable_to_py", r.err, None, None)
        /\ UNCHANGED <<gt, rt, edits, tensor_vars>>

\* ttd = pyet.py_to_etable(pdt)
Do_py_to_etable ==
    /\ pt # None
    /\ LET r == py_to_etable(pt) IN
       /\ rt' = r.val
       /\ last' = Call("py_to_etable", r.err, None, None)
    /\ UNCHANGED <<gt, pt, edits, orig, tensor_vars>>

\* The driver changes the Go table after converting it, each kind of change
\* at most once (last.op is "edit" after any of them): a column gets a name
\* the table does not use ...
RenameCol ==
    \E i \in 1..Len(gt.Cols) :
        /\ pt # None /\ "rename" \notin edits
        /\ gt' = [gt EXCEPT !.ColNames[i] = NewName]
        /\ edits' = edits \cup {"rename"}
        /\ rt' = None
        /\ last' = Call("edit", "none", None, None)
        /\ UNCHANGED <<pt, orig, tensor_vars>>

\* ... a column gets other values ...
FillCol ==
    \E i \in 1..Len(gt.Cols), k \in FillChoices :
        /\ pt # None /\ "fill" \notin edits
        /\ gt.Cols[i].values # Fill(gt.Cols[i].type, gt.Rows, k)
        /\ gt' = [gt EXCEPT !.Cols[i].values = Fill(gt.Cols[i].type, gt.Rows, k)]
        /\ edits' = edits \cup {"fill"}
        /\ rt' = None
        /\ last' = Call("edit", "none", None, None)
        /\ UNCHANGED <<pt, orig, tensor_vars>>

\* ... the table gets another number of rows.
SetNumRows ==
    \E rows \in {gt.Rows - 1, gt.Rows + 1} \cap (0..MaxRows) :
        /\ pt # None /\ "rows" \notin edits
        /\ gt' = GoSetNumRows(gt, rows)
        /\ edits' = edits \cup {"rows"}
        /\ rt' = None
        /\ last' = Call("edit", "none", None, None)
        /\ UNCHANGED <<pt, orig, tensor_vars>>

\* ... a column is replaced by one of an element type pyet has no branch for.
RetypeCol ==
    \E i \in 1..Len(gt.Cols) :
        /\ pt # None /\ "retype" \notin edits
        /\ gt' = [gt EXCEPT !.Cols[i] =
                        Tensor(NewType, <<gt.Rows>>, Fill(NewType, gt.Rows, 0))]
        /\ edits' = edits \cup {"retype"}
        /\ rt' = None
        /\ last' = Call("edit", "none", None, None)
        /\ UNCHANGED <<pt, orig, tensor_vars>>

\* pyet.copy_etable_to_py(pdt, dt); last keeps the arguments as they were
\* before the call.
Do_copy_etable_to_py ==
    /\ pt # None
    /\ pt' = copy_etable_to_py(pt, gt)
    /\ orig' = None
    /\ rt' = None
    /\ last' = Call("copy_etable_to_py", "none", gt, pt)
    /\ UNCHANGED <<gt, edits, tensor_vars>>

\* pyet.copy_py_to_etable(ttd, pdt)
Do_copy_py_to_etable ==
    /\ pt # None
    /\ LET r == copy_py_to_etable(gt, pt) IN
       /\ gt' = r.et
       /\ pt' = r.pt
       /\ orig' = IF r.pt = pt THEN orig ELSE None
    /\ rt' = None
    /\ last' = Call("copy_py_to_etable", "none", gt, pt)
    /\ UNCHANGED <<edits, tensor_vars>>

TabNext ==
    \/ Do_etable_to_py
    \/ Do_py_to_etable
    \/ RenameCol
    \/ FillCol
    \/ SetNumRows
    \/ RetypeCol
    \/ Do_copy_etable_to_py
    \/ Do_copy_py_to_etable

SpecTable == TabInit /\ [][TabNext]_vars

\* ------------------------------------------------------ claims: tensors
\* C1: for a tensor of a supported type, numpy_to_etensor(etensor_to_numpy(t))
\* has the shape of t and the element value of t at every flat index.
C1_RoundTripShapeAndValues ==
    (last.op = "numpy_to_etensor" /\ orig # None) =>
        /\ last.err = "none"
        /\ ct.shape = orig.shape
        /\ Len(ct.values) = Len(orig.values)
        /\ \A i \in 1..Len(orig.values) : ct.values[i] = orig.values[i]

\* C2: for a tensor of a supported type T, numpy_to_etensor(etensor_to_numpy(t))
\* is again a tensor of type T.
C2_RoundTripType ==
    (last.op = "numpy_to_etensor" /\ orig # None) =>
        /\ last.err = "none"
        /\ ct.type = orig.type

\* C3: copy_numpy_to_etensor(et, nar) on a tensor of a supported type and an
\* array of as many elements leaves nar as it was and makes every element of
\* et equal to the element of nar at the same flat index.
C3_CopyIntoTensor ==
    (/\ last.op = "copy_numpy_to_etensor"
     /\ last.et.type \in SupportedTypes
     /\ Len(last.et.values) = Len(last.nar.data)) =>
        /\ last.err = "none"
        /\ nar = last.nar
        /\ \A i \in 1..Len(last.nar.data) : et.values[i] = last.nar.data[i]

\* C6: etensor_to_numpy on a tensor of an unsupported type raises TypeError
\* and returns no array.
C6_UnsupportedTypeRaises ==
    (last.op = "etensor_to_numpy" /\ et.type \notin SupportedTypes) =>
        /\ last.err = "TypeError"
        /\ nar = None

C6_Witness ==
    /\ last.op = "etensor_to_numpy"
    /\ et.type \in UnsupportedTypes
    /\ Len(et.values) > 0
    /\ last.err = "TypeError"

\* ------------------------------------------- pyet.py: PyEtable, continued
\* The position a Python slice bound k stands for in a list of length len.
PyIdx(len, k) == IF k < 0 THEN Max(0, len + k) ELSE Min(k, len)

\* seq[lo:hi] and the list after del seq[lo:hi]
Slice(seq, lo, hi) == SubSeq(seq, PyIdx(Len(seq), lo) + 1, PyIdx(Len(seq), hi))
DelSlice(seq, lo, hi) ==
    LET a == PyIdx(Len(seq), lo)
        b == PyIdx(Len(seq), hi)
    IN  IF b <= a THEN seq ELSE SubSeq(seq, 1, a) \o SubSeq(seq, b + 1, Len(seq))

\* The dtype numpy gives to an array joined from arrays of dtypes d1 and d2.
Promote(d1, d2) ==
    IF d1 = d2 THEN d1
    ELSE IF "object" \in {d1, d2} THEN "object"
    ELSE IF "str" \in {d1, d2} THEN "str"
    ELSE "float64"

RECURSIVE PromoteAll(_)
PromoteAll(arrs) ==
    IF Len(arrs) = 1 THEN arrs[1].dtype
    ELSE Promote(arrs[1].dtype, PromoteAll(Tail(arrs)))

\* The value v of an array of dtype from, in an array of dtype to: the text of
\* a number is one token.
ConvertTo(to, from, v) ==
    IF to = from \/ to = "object" THEN v
    ELSE IF to = "str" THEN <<ToString(v)>>
    ELSE IF KindOfDtype(from) = "int" THEN F(v.lo, 0)
    ELSE v

\* The item width of the joined array: a number takes up to 32 characters.
NumTextWidth == 32
JoinedWidth(arrs) ==
    IF PromoteAll(arrs) # "str" THEN 0
    ELSE LET w(a) == IF a.dtype = "str" THEN a.width ELSE NumTextWidth IN
         CHOOSE m \in {w(arrs[i]) : i \in 1..Len(arrs)} :
            \A i \in 1..Len(arrs) : w(arrs[i]) <= m

\* The shape np.column_stack gives an array before joining: a 1-D array
\* becomes one column.
AsColumn(shp) == IF Len(shp) = 1 THEN <<shp[1], 1>> ELSE shp

RECURSIVE SumSeq(_)
SumSeq(q) == IF q = <<>> THEN 0 ELSE q[1] + SumSeq(Tail(q))

RECURSIVE Concat(_)
Concat(qs) == IF qs = <<>> THEN <<>> ELSE qs[1] \o Concat(Tail(qs))

\* np.column_stack(cls): the arrays are joined along the second axis; they
\* must agree in every other axis.
np_column_stack(arrs) ==
    IF arrs = <<>> THEN Raise("ValueError")
    ELSE LET shp(i) == AsColumn(arrs[i].shape)
             n == Len(arrs)
         IN  IF \E i \in 2..n :
                    \/ Len(shp(i)) # Len(shp(1))
                    \/ \E d \in (1..Len(shp(1))) \ {2} : shp(i)[d] # shp(1)[d]
             THEN Raise("ValueError")
             ELSE LET rows == shp(1)[1]
                      dt == PromoteAll(arrs)
                      blk(i) == IF rows = 0 THEN 0 ELSE Len(arrs[i].data) \div rows
                      part(r, i) ==
                          [k \in 1..blk(i) |->
                              ConvertTo(dt, arrs[i].dtype, arrs[i].data[(r - 1) * blk(i) + k])]
                      row(r) == Concat([i \in 1..n |-> part(r, i)])
                  IN  Ok(NdArray(dt, JoinedWidth(arrs),
                                 [shp(1) EXCEPT ![2] = SumSeq([i \in 1..n |-> shp(i)[2]])],
                                 Concat([r \in 1..rows |-> row(r)])))

\* MergeCols without the assignment dt.Cols[sti] = nc.
MergeCols_not_stored(dt, st_nm, n) ==
    IF st_nm \notin DOMAIN dt.ColNameMap THEN [err |-> "KeyError", pt |-> dt]
    ELSE LET sti == dt.ColNameMap[st_nm]
             nc == np_column_stack(Slice(dt.Cols, sti, sti + n))
         IN  IF nc.err # "none" THEN [err |-> nc.err, pt |-> dt]
             ELSE [err |-> "none",
                   pt |-> UpdateColNameMap(
                            [dt EXCEPT !.Cols = DelSlice(@, sti + 1, sti + n),
                                       !.ColNames = DelSlice(@, sti + 1, sti + n)])]

\* MergeCols(dt, st_nm, n): [err, pt]: the exception raised and dt after the
\* call.
MergeCols(dt, st_nm, n) ==
    IF st_nm \notin DOMAIN dt.ColNameMap THEN [err |-> "KeyError", pt |-> dt]
    ELSE LET sti == dt.ColNameMap[st_nm]
             nc == np_column_stack(Slice(dt.Cols, sti, sti + n))
         IN  IF nc.err # "none" THEN [err |-> nc.err, pt |-> dt]
             ELSE [err |-> "none",
                   pt |-> UpdateColNameMap(
                            [dt EXCEPT !.Cols = DelSlice([@ EXCEPT ![sti + 1] = nc.val],
                                                         sti + 1, sti + n),
                                       !.ColNames = DelSlice(@, sti + 1, sti + n)])]

\* ReshapeCol(dt, colnm, shp): [err, pt]
ReshapeCol(dt, colnm, shp) ==
    IF colnm \notin DOMAIN dt.ColNameMap THEN [err |-> "KeyError", pt |-> dt]
    ELSE LET ci == dt.ColNameMap[colnm]
             r == reshape(At(dt.Cols, ci), shp)
         IN  IF r.err # "none" THEN [err |-> r.err, pt |-> dt]
             ELSE [err |-> "none", pt |-> [dt EXCEPT !.Cols[ci + 1] = r.val]]

\* ------------------------------------------------ pyet.py: torch, pandas
\* The dtypes torch.from_numpy accepts in every version of torch, and those
\* only a newer torch accepts.
TorchDtypes ==
    {"float64", "float32", "int64", "int32", "int16", "int8", "uint8", "bool"}
NewTorchDtypes == {"uint16", "uint32", "uint64"}

\* torch.from_numpy(dc)
from_numpy(a, newer) ==
    IF a.dtype \in TorchDtypes \/ (newer /\ a.dtype \in NewTorchDtypes)
    THEN Ok([dtype |-> a.dtype, shape |-> a.shape, data |-> a.data])
    ELSE Raise("TypeError")

\* data_utils.TensorDataset(*tsrs): every tensor has the size of the first
\* along the first axis.
TensorDataset(tsrs) ==
    IF \A i \in 1..Len(tsrs) : tsrs[i].shape[1] = tsrs[1].shape[1]
    THEN Ok([tensors |-> tsrs])
    ELSE Raise("AssertionError")

\* The loop of etable_to_torch from column ci on, tsrs collected so far.
RECURSIVE TorchCols(_, _, _, _)
TorchCols(p, ci, tsrs, newer) ==
    IF ci > Len(p.Cols) THEN Ok(tsrs)
    ELSE IF KindOfDtype(p.Cols[ci].dtype) = "str" THEN TorchCols(p, ci + 1, tsrs, newer)
    ELSE LET tsr == from_numpy(p.Cols[ci], newer) IN
         IF tsr.err # "none" THEN tsr
         ELSE TorchCols(p, ci + 1, Append(tsrs, tsr.val), newer)

\* The same loop without the test that passes over string columns.
etable_to_torch_keep_strings(p, newer) ==
    LET t == [ci \in 1..Len(p.Cols) |-> from_numpy(p.Cols[ci], newer)] IN
    IF \E ci \in 1..Len(p.Cols) : t[ci].err # "none" THEN Raise("TypeError")
    ELSE TensorDataset([ci \in 1..Len(p.Cols) |-> t[ci].val])

\* etable_to_torch(et)
etable_to_torch(p, newer) ==
    LET tsrs == TorchCols(p, 1, <<>>, newer) IN
    IF tsrs.err # "none" THEN tsrs ELSE TensorDataset(tsrs.val)

\* ed[k] = v on a dict kept as the keys in insertion order and their values:
\* a key that is present keeps its place.
DictSet(ed, k, v) ==
    IF \E i \in 1..Len(ed.keys) : ed.keys[i] = k
    THEN [ed EXCEPT !.vals = [i \in 1..Len(ed.keys) |->
                                    IF ed.keys[i] = k THEN v ELSE ed.vals[i]]]
    ELSE [keys |-> Append(ed.keys, k), vals |-> Append(ed.vals, v)]

\* "%s_%d" % (cn, i)
CellName(cn, i) == cn \o "_" \o ToString(i)

\* rs[:, i] of the array a reshaped to [rows, csz]
CellCol(a, rows, csz, i) ==
    NdArray(a.dtype, a.width, <<rows>>, [r \in 1..rows |-> a.data[(r - 1) * csz + i + 1]])

\* The inner loop of etable_to_pandas: the columns i.. of one tensor column.
RECURSIVE SpreadCells(_, _, _, _, _, _)
SpreadCells(ed, cn, a, rows, csz, i) ==
    IF i >= csz THEN ed
    ELSE SpreadCells(DictSet(ed, CellName(cn, i), CellCol(a, rows, csz, i)),
                     cn, a, rows, csz, i + 1)

\* The loop of etable_to_pandas from column ci on (skip_tensors is False).
RECURSIVE FrameCols(_, _, _)
FrameCols(p, ci, ed) ==
    IF ci > Len(p.Cols) THEN Ok(ed)
    ELSE LET dc == p.Cols[ci]
             cn == p.ColNames[ci]
         IN  IF Len(dc.shape) = 1 THEN FrameCols(p, ci + 1, DictSet(ed, cn, dc))
             ELSE IF p.Rows = 0 THEN Raise("ZeroDivisionError")
             ELSE LET csz == Len(dc.data) \div p.Rows IN
                  IF p.Rows * csz # Len(dc.data) THEN Raise("ValueError")
                  ELSE FrameCols(p, ci + 1, SpreadCells(ed, cn, dc, p.Rows, csz, 0))

\* pd.DataFrame(data=ed): the arrays have one length; strings are kept as
\* Python objects.
DataFrame(ed) ==
    IF \E i, j \in 1..Len(ed.vals) : Len(ed.vals[i].data) # Len(ed.vals[j].data)
    THEN Raise("ValueError")
    ELSE Ok([columns |-> ed.keys,
             values |-> [i \in 1..Len(ed.vals) |->
                            IF KindOfDtype(ed.vals[i].dtype) = "str"
                            THEN [ed.vals[i] EXCEPT !.dtype = "object", !.width = 0]
                            ELSE ed.vals[i]],
             index |-> IF ed.vals = <<>> THEN 0 ELSE Len(ed.vals[1].data)])

\* etable_to_pandas(et)
etable_to_pandas(p) ==
    LET ed == FrameCols(p, 1, [keys |-> <<>>, vals |-> <<>>]) IN
    IF ed.err # "none" THEN ed ELSE DataFrame(ed.val)

\* The loop of pandas_to_etable from column ci on.
RECURSIVE FrameToCols(_, _, _)
FrameToCols(p, df, ci) ==
    IF ci > Len(df.columns) THEN p
    ELSE FrameToCols(AddCol(p, df.values[ci], df.columns[ci]), df, ci + 1)

\* pandas_to_etable(df)
pandas_to_etable(df) == FrameToCols([PyEtableNew EXCEPT !.Rows = df.index], df, 1)

\* ---------------------------- etest.py Sim.Pandas, Sim.Torch: the driver
\* The arrays the driver adds as columns, the names it gives them, the row
\* counts it sets and the shapes it reshapes to.
PoolArrays ==
    {NdArray("float64", 0, <<2, 2>>, <<F(1, 0), F(2, 0), F(3, 0), F(3, -1)>>),
     NdArray("str", 2, <<2>>, <<<<"a">>, <<"b", "c">>>>),
     NdArray("uint16", 0, <<0, 2>>, <<>>)}
PyNames == {"a", "b"}
RowChoices == {0, 2}
ReshapeShapes == {<<4>>, <<2, 2>>}

\* What an array adds to the size of a table: merging and reshaping keep the
\* sum over the columns.
Weight(a) == Max(Len(a.data), Prod(Tail(AsColumn(a.shape))))
MaxWeight ==
    MaxCols * (CHOOSE w \in {Weight(a) : a \in PoolArrays} :
                    \A a \in PoolArrays : Weight(a) <= w)

\* The calls of Sim.Pandas on the table p for its tensor column cn: the cell
\* size and the shape are those of the column.
PandasRoundTrip(p, cn, csz, shp) ==
    LET df == etable_to_pandas(p) IN
    IF df.err # "none" THEN df
    ELSE LET pcd == pandas_to_etable(df.val)
             m == MergeCols(pcd, CellName(cn, 0), csz)
         IN  IF m.err # "none" THEN Raise(m.err)
             ELSE LET r == ReshapeCol(m.pt, CellName(cn, 0), shp) IN
                  IF r.err # "none" THEN Raise(r.err) ELSE Ok(r.pt)

PyInit ==
    /\ pt = PyEtableNew
    /\ rt = None /\ gt = None /\ edits = {}
    /\ et = None /\ nar = None /\ ct = None
    /\ orig = None
    /\ last = Call("init", "none", None, None)

\* pt.AddCol(nar, name)
Py_AddCol ==
    \E a \in PoolArrays, name \in PyNames :
        /\ Len(pt.Cols) < MaxCols
        /\ SumSeq([i \in 1..Len(pt.Cols) |-> Weight(pt.Cols[i])]) + Weight(a) <= MaxWeight
        /\ pt' = AddCol(pt, a, name)
        /\ rt' = None
        /\ last' = Call("AddCol", "none", None, None)
        /\ UNCHANGED <<gt, edits, orig, tensor_vars>>

\* pt.Rows = rows
Py_SetRows ==
    \E rows \in RowChoices :
        /\ rows # pt.Rows
        /\ pt' = [pt EXCEPT !.Rows = rows]
        /\ rt' = None
        /\ last' = Call("SetRows", "none", None, None)
        /\ UNCHANGED <<gt, edits, orig, tensor_vars>>

\* pt.MergeCols(st_nm, n); last keeps the arguments and the table as it was
\* before the call.
Py_MergeCols ==
    \E st_nm \in PyNames, n \in 0..MaxCols :
        LET r == MergeCols(pt, st_nm, n) IN
        /\ pt' = r.pt
        /\ rt' = None
        /\ last' = Call("MergeCols", r.err, [st_nm |-> st_nm, n |-> n], pt)
        /\ UNCHANGED <<gt, edits, orig, tensor_vars>>

\* pt.ReshapeCol(colnm, shp)
Py_ReshapeCol ==
    \E colnm \in PyNames, shp \in ReshapeShapes :
        LET r == ReshapeCol(pt, colnm, shp) IN
        /\ pt' = r.pt
        /\ rt' = None
        /\ last' = Call("ReshapeCol", r.err, None, None)
        /\ UNCHANGED <<gt, edits, orig, tensor_vars>>

\* Sim.Torch: ttd = pyet.etable_to_torch(pdt), with either torch
Py_etable_to_torch ==
    \E newer \in BOOLEAN :
        LET r == etable_to_torch(pt, newer) IN
        /\ rt' = r.val
        /\ last' = Call("etable_to_torch", r.err, None, None)
        /\ UNCHANGED <<pt, gt, edits, orig, tensor_vars>>

\* Sim.Pandas for the tensor column ci of pt; last keeps ci.
Pandas ==
    \E ci \in 1..Len(pt.Cols) :
        /\ Len(pt.Cols[ci].shape) > 1
        /\ LET r == PandasRoundTrip(pt, pt.ColNames[ci], Prod(Tail(pt.Cols[ci].shape)),
                                    pt.Cols[ci].shape)
           IN  /\ rt' = r.val
               /\ last' = Call("Pandas", r.err, ci, None)
        /\ UNCHANGED <<pt, gt, edits, orig, tensor_vars>>

\* A table is built and its columns are merged and reshaped.
PyNext ==
    \/ Py_AddCol
    \/ Py_MergeCols
    \/ Py_ReshapeCol

SpecPy == PyInit /\ [][PyNext]_vars

\* Sim.Torch on the tables that can be built.
TorchNext ==
    \/ Py_AddCol
    \/ Py_etable_to_torch

SpecTorch == PyInit /\ [][TorchNext]_vars

\* Sim.Pandas on the tables that can be built.
PandasNext ==
    \/ Py_AddCol
    \/ Py_SetRows
    \/ Pandas

SpecPandas == PyInit /\ [][PandasNext]_vars

\* C12: copy_etensor_to_numpy and copy_numpy_to_etensor, called with a
\* tensor of an unsupported element type, raise TypeError and leave the
\* tensor and the array as they were before the call.
C12_UnsupportedCopyWritesNothing ==
    (/\ last.op \in {"copy_etensor_to_numpy", "copy_numpy_to_etensor"}
     /\ last.et.type \notin SupportedTypes) =>
        /\ last.err = "TypeError"
        /\ et = last.et
        /\ nar = last.nar

\* A copy into an array of two different elements from a tensor of an
\* unsupported type, which raised.
C12_Witness ==
    /\ last.op = "copy_etensor_to_numpy"
    /\ last.et.type \in UnsupportedTypes
    /\ last.err = "TypeError"
    /\ Len(et.values) = 2
    /\ Len(nar.data) = 2 /\ nar.data[1] # nar.data[2]

\* ------------------------------------------------------- claims: tables
\* The columns of the Go table t named as column i of the Python table p.
Matches(p, i, t) == {j \in 1..Len(t.ColNames) : t.ColNames[j] = p.ColNames[i]}

\* One table has a column name the other has not.
NameMismatch(p, t) ==
    {p.ColNames[i] : i \in 1..Len(p.ColNames)} # {t.ColNames[j] : j \in 1..Len(t.ColNames)}

\* The array a can hold the value v as it is.
Holds(a, v) ==
    CASE KindOfDtype(a.dtype) = "str" -> Len(v) <= a.width
      [] KindOfDtype(a.dtype) = "bool" -> TRUE
      [] OTHER -> Fits(a.dtype, v)

\* C4: for a table t of supported column types, py_to_etable(etable_to_py(t))
\* is computed and has the column count, the column names in order, the shape
\* and values of every column, the row count and the metadata entries of t.
C4_TableRoundTrip ==
    /\ (last.op = "etable_to_py" /\ \A i \in 1..Len(gt.Cols) : gt.Cols[i].type \in SupportedTypes)
            => last.err = "none"
    /\ (last.op = "py_to_etable" /\ orig # None) =>
            /\ last.err = "none"
            /\ Len(rt.Cols) = Len(orig.Cols)
            /\ rt.ColNames = orig.ColNames
            /\ \A i \in 1..Len(orig.Cols) :
                    /\ rt.Cols[i].shape = orig.Cols[i].shape
                    /\ rt.Cols[i].values = orig.Cols[i].values
            /\ rt.Rows = orig.Rows
            /\ rt.MetaData = orig.MetaData

\* C5 as stated: after copy_etable_to_py(dst, src) with a column name that only
\* one of the two tables has, no error reached the caller, dst has the column
\* names it had, every dst column with a name src has holds the values of
\* that src column, and every other dst column is as it was.
C5_CopyByNameMatch ==
    (last.op = "copy_etable_to_py" /\ NameMismatch(last.nar, last.et)) =>
        /\ last.err = "none"
        /\ pt.ColNames = last.nar.ColNames
        /\ \A i \in 1..Len(pt.Cols) :
                IF Matches(pt, i, gt) = {}
                THEN pt.Cols[i] = last.nar.Cols[i]
                ELSE \A j \in Matches(pt, i, gt) :
                        /\ Len(pt.Cols[i].data) = Len(gt.Cols[j].values)
                        /\ \A k \in 1..Len(gt.Cols[j].values) :
                                /\ KindOfDtype(pt.Cols[i].dtype) = KindOfType(gt.Cols[j].type)
                                /\ pt.Cols[i].data[k] = gt.Cols[j].values[k]

\* C5, amended: after copy_etable_to_py(dst, src) with a column name that only
\* one of the two tables has, no error reached the caller, dst has the column
\* names and the number of columns it had, every dst column without a match
\* in src is as it was, and in every dst column with a match of a supported
\* element type and the same number of elements each element the array's
\* dtype can hold equals src's.
C5_CopyByNameMatchSameCount ==
    (last.op = "copy_etable_to_py" /\ NameMismatch(last.nar, last.et)) =>
        /\ last.err = "none"
        /\ pt.ColNames = last.nar.ColNames
        /\ Len(pt.Cols) = Len(last.nar.Cols)
        /\ \A i \in 1..Len(pt.Cols) :
                IF Matches(pt, i, gt) = {}
                THEN pt.Cols[i] = last.nar.Cols[i]
                ELSE \A j \in Matches(pt, i, gt) :
                        (/\ gt.Cols[j].type \in SupportedTypes
                         /\ Len(last.nar.Cols[i].data) = Len(gt.Cols[j].values)) =>
                            /\ Len(pt.Cols[i].data) = Len(gt.Cols[j].values)
                            /\ \A k \in 1..Len(gt.Cols[j].values) :
                                    Holds(last.nar.Cols[i], gt.Cols[j].values[k]) =>
                                        pt.Cols[i].data[k] = gt.Cols[j].values[k]

\* A copy into a table of two columns: the first has no match in src and is
\* as it was, the second has a match and changed to the values of src.
C5_Witness ==
    /\ last.op = "copy_etable_to_py"
    /\ Len(pt.Cols) = 2
    /\ Matches(pt, 1, gt) = {} /\ Len(pt.Cols[1].data) > 0
    /\ pt.Cols[1] = last.nar.Cols[1]
    /\ \E j \in Matches(pt, 2, gt) :
            /\ pt.Cols[2].data = gt.Cols[j].values
            /\ pt.Cols[2] # last.nar.Cols[2]

\* The pass of copy_etable_to_py(p, t) for column i of p fails: t has no
\* column of the name, or one of an unsupported element type, or one of
\* another number of elements.
FailsToPy(p, t, i) ==
    \/ Matches(p, i, t) = {}
    \/ \E j \in Matches(p, i, t) :
            \/ t.Cols[j].type \notin SupportedTypes
            \/ Len(t.Cols[j].values) # Len(p.Cols[i].data)

\* The columns of the Python table p named as column i of the Go table t.
MatchesIn(t, i, p) == {j \in 1..Len(p.ColNames) : p.ColNames[j] = t.ColNames[i]}

\* The pass of copy_py_to_etable(t, p) for column i of t fails: p has no
\* column of the name, or the column of t is of an unsupported element type,
\* or the column of p has another number of elements.
FailsToGo(t, p, i) ==
    \/ MatchesIn(t, i, p) = {}
    \/ t.Cols[i].type \notin SupportedTypes
    \/ \E j \in MatchesIn(t, i, p) : Len(p.Cols[j].data) # Len(t.Cols[i].values)

\* C11: copy_etable_to_py and copy_py_to_etable raise nothing, and a column
\* after a column whose pass failed (name not found, unsupported element
\* type, other number of elements) is still copied when its own pass does
\* not fail: the destination column ends with the values of the source
\* column (those its dtype can hold, for an array).
C11_CopySwallowsFailures ==
    /\ last.op = "copy_etable_to_py" =>
            /\ last.err = "none"
            /\ \A i \in 1..Len(pt.Cols) :
                    (/\ \E f \in 1..(i - 1) : FailsToPy(last.nar, last.et, f)
                     /\ ~FailsToPy(last.nar, last.et, i))
                        => \A j \in Matches(last.nar, i, last.et) :
                                \A k \in 1..Len(last.et.Cols[j].values) :
                                    Holds(last.nar.Cols[i], last.et.Cols[j].values[k]) =>
                                        pt.Cols[i].data[k] = last.et.Cols[j].values[k]
    /\ last.op = "copy_py_to_etable" =>
            /\ last.err = "none"
            /\ \A i \in 1..Len(gt.Cols) :
                    (/\ \E f \in 1..(i - 1) : FailsToGo(last.et, last.nar, f)
                     /\ ~FailsToGo(last.et, last.nar, i))
                        => \A j \in MatchesIn(last.et, i, last.nar) :
                                \A k \in 1..Len(last.nar.Cols[j].data) :
                                    gt.Cols[i].values[k] = last.nar.Cols[j].data[k]

\* ----------------------------------------------------- claims: PyEtable
\* The table p has a column named nm, with the shape and the values of a.
HasCol(p, nm, a) ==
    \E j \in 1..Len(p.Cols) :
        /\ p.ColNames[j] = nm
        /\ p.Cols[j].shape = a.shape
        /\ p.Cols[j].data = a.data

\* C7: for a table with Rows = R and a column N of shape (R, d1, ..., dk),
\* etable_to_pandas, pandas_to_etable, MergeCols(N_0, d1*...*dk) and
\* ReshapeCol(N_0, (R, d1, ..., dk)) give a table whose column N_0 has the
\* shape and the values of N, and which has every 1-D column of the table
\* under its name with its values.
C7_MergeReshapeInverse ==
    (last.op = "Pandas" /\ pt.Cols[last.et].shape[1] = pt.Rows) =>
        /\ last.err = "none"
        /\ HasCol(rt, CellName(pt.ColNames[last.et], 0), pt.Cols[last.et])
        /\ \A i \in 1..Len(pt.Cols) :
                Len(pt.Cols[i].shape) = 1 => HasCol(rt, pt.ColNames[i], pt.Cols[i])

\* The columns of p that are not string columns, by position.
NonString(p) == {i \in 1..Len(p.Cols) : p.Cols[i].dtype \notin {"str", "bytes"}}

\* The tensors of the dataset ds are the columns idx of p, in their order.
IsDatasetOf(ds, p, idx) ==
    /\ Len(ds.tensors) = Cardinality(idx)
    /\ \A i \in idx :
            LET k == Cardinality({j \in idx : j <= i}) IN
            /\ ds.tensors[k].dtype = p.Cols[i].dtype
            /\ ds.tensors[k].shape = p.Cols[i].shape
            /\ ds.tensors[k].data = p.Cols[i].data

IsStackOf(m, arrs) ==
    LET rows == arrs[1].shape[1]
        wid(i) == IF Len(arrs[i].shape) = 1 THEN 1 ELSE arrs[i].shape[2]
        blk(i) == IF rows = 0 THEN 0 ELSE Len(arrs[i].data) \div rows
        off(i) == SumSeq([j \in 1..(i - 1) |-> blk(j)])
    IN  /\ Len(m.shape) >= 2
        /\ m.shape[1] = rows
        /\ m.shape[2] = SumSeq([i \in 1..Len(arrs) |-> wid(i)])
        /\ Len(m.data) = SumSeq([i \in 1..Len(arrs) |-> Len(arrs[i].data)])
        /\ \A i \in 1..Len(arrs) : arrs[i].dtype = m.dtype =>
                \A r \in 1..rows, k \in 1..blk(i) :
                    m.data[(r - 1) * off(Len(arrs) + 1) + off(i) + k]
                        = arrs[i].data[(r - 1) * blk(i) + k]

\* post is pre with the n columns from position s on replaced by their join.
MergedAt(pre, post, s, n) ==
    /\ Len(post.Cols) = Len(pre.Cols) - (n - 1)
    /\ Len(post.ColNames) = Len(pre.ColNames) - (n - 1)
    /\ \A i \in 1..s : post.ColNames[i] = pre.ColNames[i]
    /\ \A i \in 1..(s - 1) : post.Cols[i] = pre.Cols[i]
    /\ \A i \in (s + n)..Len(pre.Cols) :
            /\ post.ColNames[i - (n - 1)] = pre.ColNames[i]
            /\ post.Cols[i - (n - 1)] = pre.Cols[i]
    /\ IsStackOf(post.Cols[s], SubSeq(pre.Cols, s, s + n - 1))

\* The arrays agree in the number of axes (a 1-D array counting as a column)
\* and in the size of every axis but the second.
Stackable(arrs) ==
    \A i, j \in 1..Len(arrs) :
        LET si == AsColumn(arrs[i].shape)
            sj == AsColumn(arrs[j].shape)
        IN  /\ Len(si) = Len(sj)
            /\ \A d \in 1..Len(si) : d # 2 => si[d] = sj[d]

C10_NameIndex ==
    /\ Len(pt.Cols) = Len(pt.ColNames)
    /\ Cardinality(DOMAIN pt.ColNameMap) = Len(pt.Cols)
    /\ \A i \in 1..Len(pt.ColNames) :
            /\ pt.ColNames[i] \in DOMAIN pt.ColNameMap
            /\ pt.ColNameMap[pt.ColNames[i]] = i - 1

\* C10, amended: Cols and ColNames are of one length and ColNameMap has one
\* entry per name in ColNames, the last position of that name; it is the
\* position of every column when no name is repeated.
C10_NameIndexLast ==
    /\ Len(pt.Cols) = Len(pt.ColNames)
    /\ DOMAIN pt.ColNameMap = {pt.ColNames[i] : i \in 1..Len(pt.ColNames)}
    /\ \A i \in 1..Len(pt.ColNames) :
            (\A j \in (i + 1)..Len(pt.ColNames) : pt.ColNames[j] # pt.ColNames[i])
                => pt.ColNameMap[pt.ColNames[i]] = i - 1

\* A table of two columns of one name after a call of MergeCols that failed.
C10_Witness ==
    /\ last.op = "MergeCols" /\ last.err = "ValueError"
    /\ Len(pt.Cols) = 2
    /\ pt.ColNames[1] = pt.ColNames[2]

=============================================================================
